---- MODULE Spec2Model ----
(***************************************************************************)
(* Model of batch_processing.py: the perpetual sweep over the gateway      *)
(* inventory, generate_stats (Monte Carlo trilateration and aggregation)   *)
(* and upsert_predictions.                                                 *)
(*                                                                         *)
(* Units.  Coordinates, the pair distance u and the predicted radii are    *)
(* integers in hundredths of a kilometre on one axis (0.05 km = 5,         *)
(* 50 km = 5000); distance_m is in metres (10 metres per unit).            *)
(* Percentages are kept in tenths before they are formatted as text.       *)
(***************************************************************************)
EXTENDS Integers, Sequences, FiniteSets, TLC

(***************************************************************************)
(* Bounds of the model.                                                    *)
(***************************************************************************)
\* Number of Monte Carlo iterations.  The source sets N = 1000 (line 84);
\* the model runs the same loop with a small N.
N == 3
\* Largest number of edges a fetch returns for one witness.
MaxEdges == 3
\* Largest number of rows the gateway_inventory table holds.
MaxInventoryRows == 3

(***************************************************************************)
(* Program constants.                                                      *)
(***************************************************************************)
MinCoords == 3
MinPairDist == 5
MaxRadius == 5000
KRingSize == 5
MinDistanceM == 50
MaxDistanceM == 50000
MinEdges == 2
\* A missing value (SQL NULL / NaN).  Real values are >= 0.
NULL == -1

(***************************************************************************)
(* Input universes.                                                        *)
(***************************************************************************)
Addresses == {"a1", "a2"}
\* Hex locations of gateways, given by the coordinate of the cell centre.
Locations == {0}
\* Transmitter coordinates of edges inside the distance band: 100 and 105
\* are 0.05 km apart (the boundary of the same-hex test), 300 is 2 km away.
TxCoords == {100, 105, 300}
\* Transmitter coordinates a fetch may return: 5 is exactly 50 m from location
\* 0 and 5000 exactly 50 km, the two ends of the distance band.
EdgeCoords == TxCoords \cup {5, 5000}
\* Regression outputs: 0.6 km, exactly 50 km, just above 50 km.
Radii == {60, 5000, 5001}
\* Points that inverse_haversine may return for a candidate.
Points == {0, 1000}
\* Block heights the receipts table reports (line 51).
Heights == {1, 2}
\* iso_forest.predict labels.
Labels == {-1, 1}

VARIABLES
    \* ---- orchestration loop (lines 230-312)
    pc,                  \* position of the loop
    current_height,      \* line 231
    gateway_locations,   \* lines 235-241: sequence of inventory rows
    k,                   \* position in gateway_locations.index (line 245)
    witness_edges,       \* lines 251-262
    path_details,        \* lines 260-289
    result_rows,         \* line 307: set of result rows keyed by address
    upsert_status,       \* how the last upsert_predictions call ended
    topography_results,  \* the results table: sequence of rows
    \* ---- generate_stats, one step per Monte Carlo iteration (lines 83-165)
    spc,                 \* position inside generate_stats
    hotspot,             \* line 87: the witness address being processed
    witness_coords,      \* line 89
    eval_mean,           \* argument: predicted radius per edge
    asserted_location,   \* line 93
    it,                  \* how many values range(N) has yielded
    i,                   \* the loop variable of line 97
    idx1, idx2,          \* line 98
    draws,               \* permutations sampled on line 98
    n_intersect,         \* draws that reached the intersection step (line 112)
    predicted_locations, \* line 95
    results,             \* line 85
    \* ---- two successive upsert_predictions calls
    calls,               \* completed calls
    first_table,         \* the table after the first call
    first_status         \* how the first call ended

loopVars == <<pc, current_height, gateway_locations, k, witness_edges,
              path_details, result_rows, upsert_status>>
statsVars == <<spc, hotspot, witness_coords, eval_mean, asserted_location,
               it, i, idx1, idx2, draws, n_intersect, predicted_locations, results>>
twiceVars == <<calls, first_table, first_status>>
vars == <<loopVars, statsVars, twiceVars, topography_results>>

(***************************************************************************)
(* Library functions, on the one-axis geometry.                            *)
(***************************************************************************)
Abs(x) == IF x < 0 THEN -x ELSE x

\* haversine(p, q, unit=KILOMETERS), in hundredths of a kilometre.
Haversine(p, q) == Abs(p - q)

\* haversine(p, q, Unit.METERS).
HaversineM(p, q) == 10 * Haversine(p, q)

\* Width of a resolution-8 cell on the axis.
HexWidth == 100

\* h3.geo_to_h3(lat, lon, 8): the resolution-8 cell holding a point.
GeoToH3(pt) == pt \div HexWidth

\* h3.h3_to_geo(location): the centre of a gateway's hex.
H3ToGeo(location) == location

\* h3.h3_to_parent(location, 8).
H3ToParent(location) == GeoToH3(H3ToGeo(location))

\* h3.k_ring(h, kk): the cells within kk steps of h.
KRing(h, kk) == (h - kk)..(h + kk)

SeqsUpTo(S, n) == UNION {[1..m -> S] : m \in 0..n}

\* Sequences in nondecreasing order: line 98 samples the row indices
\* uniformly, so the order in which a frame lists its edges is immaterial and
\* one order per multiset of coordinates is explored.
SortedSeqsUpTo(S, n) ==
    {s \in SeqsUpTo(S, n) : \A a, b \in DOMAIN s : a < b => s[a] <= s[b]}

(***************************************************************************)
(* Text of a percentage: str(np.round(100 * pts_in_hex / n_points, 1)).    *)
(***************************************************************************)
DigitChars == <<"0", "1", "2", "3", "4", "5", "6", "7", "8", "9">>

RECURSIVE Digits(_)
Digits(n) ==
    IF n < 10 THEN <<DigitChars[n + 1]>>
    ELSE Digits(n \div 10) \o <<DigitChars[(n % 10) + 1]>>

\* np.round rounds to the nearest value, ties to even.
RoundHalfEven(num, den) ==
    LET q == num \div den
        r == num % den
    IN  IF 2 * r < den THEN q
        ELSE IF 2 * r > den THEN q + 1
        ELSE IF q % 2 = 0 THEN q ELSE q + 1

\* The text of a float with one decimal, given in tenths: 333 is "33.3".
StrFloat1(tenths) == Digits(tenths \div 10) \o <<".">> \o Digits(tenths % 10)

\* A variant of PercentText that formats the zero of an empty run like any
\* other percentage.
PercentTextFormatted(pts_in_hex, n_points) ==
    IF n_points = 0 THEN StrFloat1(0)
    ELSE StrFloat1(RoundHalfEven(1000 * pts_in_hex, n_points))

\* Lines 146-149: the division raises on n_points = 0 and p becomes "0".
PercentText(pts_in_hex, n_points) ==
    IF n_points = 0 THEN <<"0">>
    ELSE StrFloat1(RoundHalfEven(1000 * pts_in_hex, n_points))

\* Reading a percentage text back as a number of tenths.
CharDigit(c) == CHOOSE d \in 0..9 : DigitChars[d + 1] = c

RECURSIVE ParseInt(_)
ParseInt(text) ==
    IF text = <<>> THEN 0
    ELSE 10 * ParseInt(SubSeq(text, 1, Len(text) - 1)) + CharDigit(text[Len(text)])

ParseTenths(text) ==
    IF \E j \in DOMAIN text : text[j] = "."
    THEN LET dot == CHOOSE j \in DOMAIN text : text[j] = "."
         IN  10 * ParseInt(SubSeq(text, 1, dot - 1))
                + ParseInt(SubSeq(text, dot + 1, Len(text)))
    ELSE 10 * ParseInt(text)

(***************************************************************************)
(* generate_stats: one Monte Carlo draw (lines 98-133).                    *)
(***************************************************************************)
\* A variant of SameHex that lets a pair at exactly 0.05 km through.
SameHexExclusive(u) == u < MinPairDist

\* Line 100.
SameHex(u) == u <= MinPairDist

\* Line 107.
RadiusTooLarge(r1, r2) == r1 > MaxRadius \/ r2 > MaxRadius

\* Lines 112-113: r1^2 - x'^2 < 0 with x' = (r1^2 - r2^2 + u^2) / (2u), that
\* is |x'| > |r1|, multiplied by 2u (u > 0 here).
NegativeRadicand(r1, r2, u) ==
    Abs(r1 * r1 - r2 * r2 + u * u) > 2 * u * Abs(r1)

\* What lines 99-133 do with the pair (a, b) of sampled indices.
DrawKind(coords, em, a, b) ==
    LET u == Haversine(coords[a], coords[b])
    IN  IF SameHex(u) THEN "same_hex"
        ELSE IF RadiusTooLarge(em[a], em[b]) THEN "radius"
        ELSE IF NegativeRadicand(em[a], em[b], u) THEN "radicand"
        ELSE "kept"

\* Lines 127-131.
PredictedLocation(asserted, pt_1, pt_2) ==
    IF Haversine(asserted, pt_1) < Haversine(asserted, pt_2) THEN pt_1 ELSE pt_2

\* The list after one iteration of the loop body (lines 98-133).
MCStep(pl, coords, em, asserted, a, b, pt_1, pt_2) ==
    IF DrawKind(coords, em, a, b) = "kept"
    THEN Append(pl, PredictedLocation(asserted, pt_1, pt_2))
    ELSE pl

\* A variant of Consume in which the `i -= 1` of line 109 gives the attempt
\* back.
ConsumeUnlessRetried(yielded, kind) ==
    IF kind = "radius" THEN yielded ELSE yielded + 1

\* Line 97: range(N) yields its next value whatever the body did.
Consume(yielded, kind) == yielded + 1

\* Lines 97 and 109: the loop variable at the end of the body.
LoopVar(yielded, kind) == IF kind = "radius" THEN yielded - 1 ELSE yielded

\* Lines 124-125 are reached by a kept draw only: the points they may return.
CandidatePoints(kind) == IF kind = "kept" THEN Points ELSE {NULL}

\* The outliers column of details_df for n edges.  Line 156 counts the
\* negative labels, so one order per count is explored.
OutlierLabels(n) == SortedSeqsUpTo(Labels, n) \cap [1..n -> Labels]

\* The pairs (idx1, idx2) line 98 can sample from n rows.
IndexPairs(n) == {p \in (1..n) \X (1..n) : p[1] # p[2]}

(***************************************************************************)
(* generate_stats: aggregation (lines 135-165).                            *)
(***************************************************************************)
\* Lines 140-145.
PtsInHex(pl, asserted_hex_res8) ==
    Cardinality({j \in DOMAIN pl : GeoToH3(pl[j]) \in KRing(asserted_hex_res8, KRingSize)})

\* np.median: NaN for an empty list.
Median(pl) ==
    LET s == SortSeq(pl, LAMBDA x, y : x < y)
        n == Len(s)
    IN  IF n = 0 THEN NULL
        ELSE IF n % 2 = 1 THEN s[(n + 1) \div 2]
        ELSE (s[n \div 2] + s[(n \div 2) + 1]) \div 2

\* Lines 154-155: the distance to a NaN point is NaN.
PredictionError(asserted, pl) ==
    IF Median(pl) = NULL THEN NULL ELSE Haversine(asserted, Median(pl))

\* Lines 152-157 and 161: the result row of one hotspot.
ResultRow(address, asserted, asserted_hex_res8, pl, labels, height) ==
    [address |-> address,
     percent_predictions_within_5_res8_krings |->
         PercentText(PtsInHex(pl, asserted_hex_res8), Len(pl)),
     prediction_error_km |-> PredictionError(asserted, pl),
     n_outliers |-> Cardinality({j \in DOMAIN labels : labels[j] < 0}),
     n_beaconers_heard |-> Len(labels),
     block |-> height]

\* Lines 239-241: one row of the indexed inventory.
GatewayRow(address, location, gain, elevation) ==
    [address |-> address, location |-> location, gain |-> gain,
     elevation |-> elevation,
     asserted_location |-> H3ToGeo(location),
     asserted_hex_res8 |-> H3ToParent(location)]

\* gateway_locations.loc[address] on an index without duplicates.
Loc(inventory, address) ==
    inventory[CHOOSE j \in DOMAIN inventory : inventory[j].address = address]

(***************************************************************************)
(* Values of the variables a specification does not use.                   *)
(***************************************************************************)
StatsIdle ==
    /\ spc = "idle" /\ hotspot = "a1" /\ witness_coords = <<>> /\ eval_mean = <<>>
    /\ asserted_location = 0 /\ it = 0 /\ i = 0 /\ idx1 = 0 /\ idx2 = 0
    /\ draws = 0 /\ n_intersect = 0 /\ predicted_locations = <<>> /\ results = <<>>

TwiceIdle == calls = 0 /\ first_table = <<>> /\ first_status = "none"

(***************************************************************************)
(* generate_stats, step by step (lines 83-165).                            *)
(***************************************************************************)
\* A call of generate_stats: details_df holds the edges of one witness, whose
\* row is in gateway_locations.
StatsInit ==
    /\ spc = "start"
    /\ hotspot = "a1"
    /\ witness_coords \in SortedSeqsUpTo(TxCoords, MaxEdges)
    /\ eval_mean \in [DOMAIN witness_coords -> Radii]
    /\ gateway_locations \in {<<GatewayRow("a1", l, 1, 1)>> : l \in Locations}
    /\ current_height \in {h \in Heights : \A g \in Heights : g <= h}
    /\ asserted_location = 0 /\ it = 0 /\ i = 0 /\ idx1 = 0 /\ idx2 = 0
    /\ draws = 0 /\ n_intersect = 0 /\ predicted_locations = <<>> /\ results = <<>>
    /\ pc = "idle" /\ k = 0 /\ witness_edges = <<>> /\ path_details = <<>>
    /\ result_rows = {} /\ upsert_status = "none"
    /\ topography_results = <<>>
    /\ TwiceIdle

statsLocals == <<hotspot, witness_coords, eval_mean>>

\* Lines 89-91 and 160-162: fewer than three coordinates leave results empty,
\* and indexing the empty frame by "address" raises KeyError.
InsufficientCoords ==
    /\ spc = "start"
    /\ Len(witness_coords) < MinCoords
    /\ spc' = "raised"
    /\ UNCHANGED <<statsLocals, asserted_location, it, i, idx1, idx2, draws,
                   n_intersect, predicted_locations, results>>
    /\ UNCHANGED <<loopVars, twiceVars, topography_results>>

\* Lines 93-95.
EnterLoop ==
    /\ spc = "start"
    /\ Len(witness_coords) >= MinCoords
    /\ asserted_location' = Loc(gateway_locations, hotspot).asserted_location
    /\ predicted_locations' = <<>>
    /\ spc' = "loop"
    /\ UNCHANGED <<statsLocals, it, i, idx1, idx2, draws, n_intersect, results>>
    /\ UNCHANGED <<loopVars, twiceVars, topography_results>>

\* The body of one iteration of lines 97-133 that ends the way `kind` names.
Draw(kind) ==
    /\ \E p \in IndexPairs(Len(witness_coords)) :
       \E pt_1 \in CandidatePoints(kind), pt_2 \in CandidatePoints(kind) :
          /\ DrawKind(witness_coords, eval_mean, p[1], p[2]) = kind
          /\ idx1' = p[1]
          /\ idx2' = p[2]
          /\ predicted_locations' =
                 MCStep(predicted_locations, witness_coords, eval_mean,
                        asserted_location, p[1], p[2], pt_1, pt_2)
    /\ draws' = draws + 1
    /\ n_intersect' = IF kind \in {"radicand", "kept"} THEN n_intersect + 1
                      ELSE n_intersect
    /\ it' = Consume(it, kind)
    /\ i' = LoopVar(it, kind)
    /\ UNCHANGED <<spc, statsLocals, asserted_location, results>>
    /\ UNCHANGED <<loopVars, twiceVars, topography_results>>

\* Lines 100-102.
DrawSameHex == spc = "loop" /\ it < N /\ Draw("same_hex")

\* Lines 107-110.
DrawRadiusTooLarge == spc = "loop" /\ it < N /\ Draw("radius")

\* Lines 113-115.
DrawNegativeRadicand == spc = "loop" /\ it < N /\ Draw("radicand")

\* Lines 116-133.
DrawKept == spc = "loop" /\ it < N /\ Draw("kept")

\* Lines 135-165, once range(N) is exhausted.
Aggregate ==
    /\ spc = "loop"
    /\ it >= N
    /\ \E labels \in OutlierLabels(Len(witness_coords)) :
          results' = <<ResultRow(hotspot, asserted_location,
                                 Loc(gateway_locations, hotspot).asserted_hex_res8,
                                 predicted_locations, labels, current_height)>>
    /\ spc' = "done"
    /\ UNCHANGED <<statsLocals, asserted_location, it, i, idx1, idx2, draws,
                   n_intersect, predicted_locations>>
    /\ UNCHANGED <<loopVars, twiceVars, topography_results>>

StatsNext ==
    \/ InsufficientCoords
    \/ EnterLoop
    \/ DrawSameHex
    \/ DrawRadiusTooLarge
    \/ DrawNegativeRadicand
    \/ DrawKept
    \/ Aggregate

SpecStats == StatsInit /\ [][StatsNext]_vars

(***************************************************************************)
(* generate_stats as the orchestration loop calls it (line 307): every     *)
(* list the Monte Carlo loop can end with, and every value it can return.  *)
(***************************************************************************)
RECURSIVE MonteCarlo(_, _, _, _)
MonteCarlo(iterations, coords, em, asserted) ==
    IF iterations = 0 THEN {<<>>}
    ELSE UNION {{MCStep(pl, coords, em, asserted, p[1], p[2], pt_1, pt_2) :
                    pt_1 \in CandidatePoints(DrawKind(coords, em, p[1], p[2])),
                    pt_2 \in CandidatePoints(DrawKind(coords, em, p[1], p[2]))} :
                  <<pl, p>> \in MonteCarlo(iterations - 1, coords, em, asserted)
                                \X IndexPairs(Len(coords))}

\* Lines 301 and 307: the lists the loop of generate_stats can end with on the
\* edges `coords`, for some output of svm.predict.  One entry per frame the
\* orchestration loop can pass.
ListsTable ==
    {<<c, a, UNION {MonteCarlo(N, c, em, a) : em \in [DOMAIN c -> Radii]}>> :
        c \in {s \in SortedSeqsUpTo(TxCoords, MaxEdges) : Len(s) >= MinCoords},
        a \in {H3ToGeo(l) : l \in Locations}}

PossibleLists(coords, asserted) ==
    (CHOOSE t \in ListsTable : t[1] = coords /\ t[2] = asserted)[3]

\* A variant of GenerateStatsRaises that asks for one coordinate more.
GenerateStatsRaisesBelowFour(coords) == Len(coords) < MinCoords + 1

\* Lines 87-91 and 160-162: generate_stats raises KeyError.
GenerateStatsRaises(coords) == Len(coords) < MinCoords

\* The result_rows a call returns when its loop ends with the list pl: one
\* row, keyed by the witness address.
GenerateStats(address, inventory, pl, labels, height) ==
    {ResultRow(address, Loc(inventory, address).asserted_location,
               Loc(inventory, address).asserted_hex_res8, pl, labels, height)}

(***************************************************************************)
(* upsert_predictions (lines 168-183).                                     *)
(***************************************************************************)
\* A variant of Present whose query finds no address.
PresentNone(table, rows) == {}

\* Lines 170-173: the addresses of the candidate rows found in the table.
Present(table, rows) ==
    {r.address : r \in rows} \cap {table[j].address : j \in DOMAIN table}

\* A variant of EntriesToPut that pops nothing.
EntriesToPutAll(table, rows) == rows

\* Lines 170-176: the rows left after popping the addresses already present.
EntriesToPut(table, rows) == {r \in rows : r.address \notin Present(table, rows)}

RECURSIVE SetToSeqs(_)
SetToSeqs(S) ==
    IF S = {} THEN {<<>>}
    ELSE UNION {{<<x>> \o s : s \in SetToSeqs(S \ {x})} : x \in S}

\* Lines 177-180: the tables a committed bulk insert can leave.
Inserted(table, rows) == {table \o s : s \in SetToSeqs(EntriesToPut(table, rows))}

\* A variant of RolledBack that keeps the flushed rows.
RolledBackKeepsRows(table, rows) ==
    table \o (CHOOSE s \in SetToSeqs({r \in rows : r.address \notin
                  {table[j].address : j \in DOMAIN table}}) : TRUE)

\* Lines 181-183: the table after the rollback.
RolledBack(table, rows) == table

(***************************************************************************)
(* Gateway inventory (lines 235-243).                                      *)
(***************************************************************************)
\* Rows of the frame read on line 235, most recent last_block first: a row is
\* complete or misses one of location, gain and elevation.
InventoryRows ==
    {row \in [address : Addresses, location : Locations \cup {NULL},
              gain : {1, NULL}, elevation : {1, NULL}] :
        Cardinality({f \in {"location", "gain", "elevation"} : row[f] = NULL}) <= 1}

HasNull(row) == row.location = NULL \/ row.gain = NULL \/ row.elevation = NULL

\* Lines 239-241: set_index("address").dropna() and the derived columns.
IndexInventory(frame) ==
    LET keep == SelectSeq(frame, LAMBDA row : ~HasNull(row))
    IN  [j \in DOMAIN keep |->
            GatewayRow(keep[j].address, keep[j].location, keep[j].gain,
                       keep[j].elevation)]

\* Frames in which no address occurs twice.
Keyed(frame) ==
    \A a, b \in DOMAIN frame : a # b => frame[a].address # frame[b].address

\* The frames line 235 reads from an inventory table keyed by address.
KeyedFrames == {f \in SeqsUpTo(InventoryRows, Cardinality(Addresses)) : Keyed(f)}

(***************************************************************************)
(* Orchestration loop (lines 230-312).                                     *)
(***************************************************************************)
Init ==
    /\ pc = "sweep"
    /\ current_height = 0
    /\ gateway_locations = <<>>
    /\ k = 0
    /\ witness_edges = <<>>
    /\ path_details = <<>>
    /\ result_rows = {}
    /\ upsert_status = "none"
    /\ topography_results = <<>>
    /\ StatsIdle
    /\ TwiceIdle

\* What the loop leaves alone in every step but the upsert.
loopRest == <<statsVars, twiceVars, topography_results>>

\* Lines 231-237: the height stamp of the sweep and the inventory query.
QueryInventory(frames) ==
    /\ pc = "sweep"
    /\ \E h \in Heights : h >= current_height /\ current_height' = h
    /\ \E frame \in frames : gateway_locations' = frame
    /\ pc' = "loaded"
    /\ UNCHANGED <<k, witness_edges, path_details, result_rows, upsert_status>>
    /\ UNCHANGED loopRest

\* The inventory table holds one row per address.
StartSweep ==
    QueryInventory(KeyedFrames)

\* Lines 239-245.
LoadInventory ==
    /\ pc = "loaded"
    /\ gateway_locations' = IndexInventory(gateway_locations)
    /\ k' = 1
    /\ pc' = "node"
    /\ UNCHANGED <<current_height, witness_edges, path_details, result_rows,
                   upsert_status>>
    /\ UNCHANGED loopRest

\* A `continue` of the loop body, or its end (line 312): the next address.
\* The frames and rows of the node are not read again.
NextNode ==
    /\ k' = k + 1
    /\ pc' = "node"
    /\ witness_edges' = <<>>
    /\ path_details' = <<>>
    /\ result_rows' = {}
    /\ UNCHANGED <<current_height, gateway_locations>>

\* An exception leaves the while loop of line 230: the process ends, and its
\* frames with it.
Abort ==
    /\ pc' = "aborted"
    /\ witness_edges' = <<>>
    /\ path_details' = <<>>
    /\ result_rows' = {}
    /\ UNCHANGED <<current_height, gateway_locations, k>>

AtNode == pc = "node" /\ k <= Len(gateway_locations)

\* Line 245: the inventory is exhausted, back to line 231.
EndSweep ==
    /\ pc = "node"
    /\ k > Len(gateway_locations)
    /\ pc' = "sweep"
    /\ upsert_status' = "none"
    /\ UNCHANGED <<current_height, gateway_locations, k, witness_edges,
                   path_details, result_rows>>
    /\ UNCHANGED loopRest

\* Lines 250-253: NoResultFound, KeyError or ValueError from the fetch.
FetchRaisesCaught ==
    /\ AtNode
    /\ NextNode
    /\ upsert_status' = "none"
    /\ UNCHANGED loopRest

\* Line 251: any other exception of the fetch (an OperationalError of
\* read_sql) is not caught.
FetchRaisesOther ==
    /\ AtNode
    /\ Abort
    /\ upsert_status' = "none"
    /\ UNCHANGED loopRest

\* The transmitters an address is heard from, at most: a1 witnesses up to
\* MaxEdges transmitters, a2 at most two, so that one address at most enters
\* the results table.
MaxHeard(address) == IF address = "a1" THEN MaxEdges ELSE MinEdges

\* Lines 208-224: the frames a fetch can return for an address, each given by
\* the transmitter coordinates of its edges; None is the empty frame here.
FetchedFrames(address) == SortedSeqsUpTo(EdgeCoords, MaxHeard(address))

\* Lines 218 and 262: the edges inside the distance band.
InBand(address, inventory, coords) ==
    SelectSeq(coords,
              LAMBDA c : LET d == HaversineM(c, Loc(inventory, address).asserted_location)
                         IN  d > MinDistanceM /\ d < MaxDistanceM)

\* Lines 254-259: no frame, or a frame of fewer than two edges.
FetchTooFew ==
    /\ AtNode
    /\ \E coords \in FetchedFrames(gateway_locations[k].address) :
          Len(coords) < MinEdges
    /\ NextNode
    /\ upsert_status' = "none"
    /\ UNCHANGED loopRest

\* Lines 251-262: a frame of two or more edges.
FetchEdges ==
    /\ AtNode
    /\ \E coords \in FetchedFrames(gateway_locations[k].address) :
          /\ Len(coords) >= MinEdges
          /\ witness_edges' = InBand(gateway_locations[k].address, gateway_locations, coords)
    /\ pc' = "features"
    /\ upsert_status' = "none"
    /\ UNCHANGED <<current_height, gateway_locations, k, path_details, result_rows>>
    /\ UNCHANGED loopRest

\* Line 264: rasterio.open raises; nothing catches it.
RasterOpenRaises ==
    /\ pc = "features"
    /\ Abort
    /\ UNCHANGED upsert_status
    /\ UNCHANGED loopRest

\* The subsequences of a sequence.
RECURSIVE SubSeqs(_)
SubSeqs(s) ==
    IF s = <<>> THEN {<<>>}
    ELSE LET rest == SubSeqs(Tail(s))
         IN  rest \cup {<<Head(s)>> \o t : t \in rest}

\* Lines 266-294: the edges whose features are valid and assembled; with none
\* left the node is skipped.
ExtractFeatures ==
    /\ pc = "features"
    /\ \E kept \in SubSeqs(witness_edges) :
          IF Len(kept) < 1
          THEN NextNode
          ELSE /\ path_details' = kept
               /\ pc' = "stats"
               /\ UNCHANGED <<current_height, gateway_locations, k, witness_edges,
                              result_rows>>
    /\ UNCHANGED upsert_status
    /\ UNCHANGED loopRest

\* Lines 301-303: svm.predict or iso_forest.predict raises; nothing catches it.
PredictRaises ==
    /\ pc = "stats"
    /\ Abort
    /\ UNCHANGED upsert_status
    /\ UNCHANGED loopRest

\* Lines 306-309: generate_stats raises KeyError and the node is skipped.
StatsSkipsNode ==
    /\ pc = "stats"
    /\ GenerateStatsRaises(path_details)
    /\ NextNode
    /\ UNCHANGED upsert_status
    /\ UNCHANGED loopRest

\* Lines 296-307: inference, then generate_stats returns result_rows.
StatsReturns ==
    /\ pc = "stats"
    /\ ~GenerateStatsRaises(path_details)
    /\ \E pl \in PossibleLists(path_details,
                                Loc(gateway_locations, gateway_locations[k].address).asserted_location) :
       \E labels \in OutlierLabels(Len(path_details)) :
          result_rows' = GenerateStats(gateway_locations[k].address, gateway_locations,
                                       pl, labels, current_height)
    /\ pc' = "upsert"
    /\ UNCHANGED <<current_height, gateway_locations, k, witness_edges, path_details,
                   upsert_status>>
    /\ UNCHANGED loopRest

\* Lines 170-180 and 312: the insert is committed.
UpsertCommits ==
    /\ pc = "upsert"
    /\ topography_results' \in Inserted(topography_results, result_rows)
    /\ upsert_status' = "committed"
    /\ NextNode
    /\ UNCHANGED <<statsVars, twiceVars>>

\* Lines 179-183 and 312: the commit raises OperationalError.
UpsertRollsBack ==
    /\ pc = "upsert"
    /\ topography_results' = RolledBack(topography_results, result_rows)
    /\ upsert_status' = "rolled_back"
    /\ NextNode
    /\ UNCHANGED <<statsVars, twiceVars>>

\* Lines 171-180: the query, the bulk insert, the flush or the commit raises
\* anything but an OperationalError of the commit; the transaction is lost
\* with the process.
UpsertRaises ==
    /\ pc = "upsert"
    /\ upsert_status' = "raised"
    /\ Abort
    /\ UNCHANGED loopRest

Next ==
    \/ StartSweep
    \/ LoadInventory
    \/ EndSweep
    \/ FetchRaisesCaught
    \/ FetchRaisesOther
    \/ FetchTooFew
    \/ FetchEdges
    \/ RasterOpenRaises
    \/ ExtractFeatures
    \/ PredictRaises
    \/ StatsSkipsNode
    \/ StatsReturns
    \/ UpsertCommits
    \/ UpsertRollsBack
    \/ UpsertRaises

Spec == Init /\ [][Next]_vars

(***************************************************************************)
(* The inventory load on any inventory table (lines 231-245).              *)
(***************************************************************************)
\* The frames line 235 reads from a table of at most MaxInventoryRows rows,
\* whatever addresses they carry.
AnyFrames == SeqsUpTo(InventoryRows, MaxInventoryRows)

StartSweepAnyTable == QueryInventory(AnyFrames)

InvNext ==
    \/ StartSweepAnyTable
    \/ LoadInventory

SpecInv == Init /\ [][InvNext]_vars

(***************************************************************************)
(* Two successive calls of upsert_predictions with the same result_rows.   *)
(***************************************************************************)
\* Result rows as generate_stats builds them.
SampleRows ==
    {ResultRow(a, 0, 0, pl, <<1, 1, 1>>, h) :
        a \in Addresses, pl \in {<<>>, <<0>>}, h \in Heights}

\* Dictionaries keyed by address (line 164).
RowDicts ==
    {d \in SUBSET SampleRows : \A r1, r2 \in d : r1.address = r2.address => r1 = r2}

\* States of the results table: at most one row per address.
SampleTables == UNION {SetToSeqs(d) : d \in RowDicts}

UpsertInit ==
    /\ topography_results \in SampleTables
    /\ result_rows \in RowDicts
    /\ upsert_status = "none"
    /\ calls = 0
    /\ first_table = <<>>
    /\ first_status = "none"
    /\ pc = "idle" /\ current_height = 0 /\ gateway_locations = <<>> /\ k = 0
    /\ witness_edges = <<>> /\ path_details = <<>>
    /\ StatsIdle

\* One call returns or raises: the caller's dictionary has lost the keys
\* popped on line 173.
Returned(status) ==
    /\ result_rows' = EntriesToPut(topography_results, result_rows)
    /\ upsert_status' = status
    /\ calls' = calls + 1
    /\ first_table' = IF calls = 0 THEN topography_results' ELSE first_table
    /\ first_status' = IF calls = 0 THEN status ELSE first_status
    /\ UNCHANGED <<pc, current_height, gateway_locations, k, witness_edges,
                   path_details>>
    /\ UNCHANGED statsVars

\* Lines 170-180.
CallCommits ==
    /\ calls < 2
    /\ topography_results' \in Inserted(topography_results, result_rows)
    /\ Returned("committed")

\* Lines 179-183.
CallRollsBack ==
    /\ calls < 2
    /\ topography_results' = RolledBack(topography_results, result_rows)
    /\ Returned("rolled_back")

\* Lines 171-180: an exception other than the OperationalError of the commit.
CallRaises ==
    /\ calls < 2
    /\ topography_results' = topography_results
    /\ Returned("raised")

UpsertNext ==
    \/ CallCommits
    \/ CallRollsBack
    \/ CallRaises

SpecUpsert == UpsertInit /\ [][UpsertNext]_vars

(***************************************************************************)
(* Properties.                                                             *)
(***************************************************************************)
\* C1: no failure raised while processing a node aborts the sweep: the loop
\* never leaves the while of line 230.
C1_SweepNeverAborted == pc # "aborted"

C3_InsertOnly ==
    /\ [](\A a, b \in DOMAIN topography_results :
             a # b => topography_results[a].address # topography_results[b].address)
    /\ [][\A j \in DOMAIN topography_results :
             /\ j \in DOMAIN topography_results'
             /\ topography_results'[j] = topography_results[j]]_vars

C3_Witness ==
    /\ upsert_status = "committed"
    /\ Len(topography_results) = 1
    /\ topography_results[1].block < current_height

\* C4: a commit that raises the operational error is rolled back: the table
\* is as before the call, nothing is raised, and the loop goes on with the
\* next node of the same sweep.
C4_RollbackContinues ==
    [][pc = "upsert" /\ upsert_status' = "rolled_back" =>
          /\ topography_results' = topography_results
          /\ pc' = "node"
          /\ k' = k + 1
          /\ gateway_locations' = gateway_locations
          /\ current_height' = current_height]_vars

C4_Witness ==
    /\ upsert_status = "rolled_back"
    /\ pc = "node"
    /\ k = 2
    /\ topography_results = <<>>

\* C5: the inventory the sweep iterates holds one row per address, and none
\* with a missing location, gain or elevation.
C5_OneRowPerAddress ==
    pc = "node" =>
        /\ Keyed(gateway_locations)
        /\ \A j \in DOMAIN gateway_locations : ~HasNull(gateway_locations[j])

\* C6: only the draws that reach the intersection step count toward N: when
\* the loop is over, N draws have reached it.
C6_DiscardsRetried == spc = "done" => n_intersect = N

\* C7: a location is appended only for a draw whose pair of points is more
\* than 0.05 km apart, whose radii are both at most 50 km and whose radicand
\* r1^2 - x'^2 is not negative.
C7_PairRejection ==
    [][Len(predicted_locations') > Len(predicted_locations) =>
          LET u  == Haversine(witness_coords[idx1'], witness_coords[idx2'])
              r1 == eval_mean[idx1']
              r2 == eval_mean[idx2']
          IN  /\ u > 5
              /\ r1 <= 5000
              /\ r2 <= 5000
              /\ r1 * r1 - r2 * r2 + u * u <= 2 * u * r1
              /\ r1 * r1 - r2 * r2 + u * u >= -(2 * u * r1)]_vars

C7_Witness ==
    /\ spc = "loop"
    /\ Len(predicted_locations) > 0
    /\ \E a, b \in DOMAIN witness_coords :
          Haversine(witness_coords[a], witness_coords[b]) = 5
    /\ \E a \in DOMAIN eval_mean : eval_mean[a] > 5000

\* C8: a node with fewer than three edges for generate_stats gets no result
\* row and nothing is upserted for it; a node with three or more gets exactly
\* one result row, keyed by its address, unless inference raised.
C8_NodeSkip ==
    /\ [](\A j \in DOMAIN topography_results :
             topography_results[j].n_beaconers_heard >= 3)
    /\ [][pc = "stats" =>
             /\ Len(path_details) < 3 =>
                   /\ pc' # "upsert"
                   /\ result_rows' = {}
                   /\ topography_results' = topography_results
             /\ Len(path_details) >= 3 /\ pc' # "aborted" =>
                   /\ pc' = "upsert"
                   /\ Cardinality(result_rows') = 1
                   /\ \A r \in result_rows' :
                         /\ r.address = gateway_locations[k].address
                         /\ r.n_beaconers_heard = Len(path_details)]_vars

C8_Witness ==
    /\ pc = "upsert"
    /\ Len(path_details) = 3
    /\ \E r \in result_rows :
          /\ r.percent_predictions_within_5_res8_krings = <<"0">>
          /\ r.prediction_error_km = NULL

\* C9: the containment percentage of every result row is within [0, 100], the
\* count of points in the ring never exceeds the number of points, and the
\* percentage is the text "0" when no location was generated.
C9_PercentBound ==
    \A j \in DOMAIN results :
       LET p == results[j].percent_predictions_within_5_res8_krings
       IN  /\ ParseTenths(p) >= 0
           /\ ParseTenths(p) <= 1000
           /\ PtsInHex(predicted_locations, GeoToH3(asserted_location))
                 <= Len(predicted_locations)
           /\ Len(predicted_locations) = 0 => p = <<"0">>

C9_Witness ==
    /\ spc = "done"
    /\ predicted_locations = <<>>
    /\ results[1].percent_predictions_within_5_res8_krings = <<"0">>

====
